---- MODULE Spec2Model ----
(***************************************************************************)
(* disk-watchdogd (src/disk-watchdog.c): a daemon that probes a file with  *)
(* O_DIRECT reads and pets the systemd watchdog after each good probe.     *)
(*                                                                         *)
(* The process is modelled statement by statement: pc is the position of   *)
(* main (and of the function it is in), the C globals and the locals of    *)
(* test_read are variables, and everything the environment decides (the    *)
(* results of getopt_long, strdup, sd_watchdog_enabled, stat, and of the   *)
(* system calls of the probe, and the delivery of signals) is chosen with  *)
(* \E.  Variables whose names start with n_, and hb_iter, all_ok,          *)
(* reseek_failed, sig_pc, sig_snap, cfg_error, usage, help_seen, checked,  *)
(* slept_us and test_file_freed record what the process did; the code does *)
(* not read them.                                                          *)
(***************************************************************************)
EXTENDS Integers, Sequences, FiniteSets

VARIABLES
    args,            \* the results getopt_long has still to return (argv past optind)
    test_file,       \* line 16
    interval_us,     \* line 17, a 32-bit signed int
    verbose_mode,    \* line 18
    debug_mode,      \* line 19
    running,         \* line 15
    iteration,       \* line 210
    read_result,     \* line 211
    handlers,        \* the signals signal_handler is installed for
    watchdog_usec,   \* line 162, a uint64_t as four 16-bit limbs
    watchdog_enabled,\* line 163
    st,              \* line 189, what stat() filled in
    pc,              \* position of the process
    exit_code,       \* exit status, NoExit while the process lives
    read_buf,        \* line 29: "none", "held" or "freed"
    fd,              \* line 30: "none", "open" or "closed"
    file_size,       \* line 31
    aligned_size,    \* line 60
    bytes_read,      \* line 32
    ret,             \* line 33
    rc,              \* the value test_read is about to return
    n_query, n_ready, n_hb, n_probe, n_ok, n_check, n_sleep,
    n_reads, n_free, n_close,
    hb_iter, all_ok, reseek_failed, sig_pc, sig_snap, cfg_error, usage,
    help_seen, checked, slept_us, test_file_freed

vars == <<args, test_file, interval_us, verbose_mode, debug_mode, running,
          iteration, read_result, handlers, watchdog_usec, watchdog_enabled,
          st, pc, exit_code, read_buf, fd, file_size, aligned_size,
          bytes_read, ret, rc, n_query, n_ready, n_hb, n_probe, n_ok, n_check,
          n_sleep, n_reads, n_free, n_close, hb_iter, all_ok, reseek_failed,
          sig_pc, sig_snap, cfg_error, usage, help_seen, checked, slept_us,
          test_file_freed>>

cfgVars == <<test_file, interval_us, verbose_mode, debug_mode>>
wdVars == <<watchdog_usec, watchdog_enabled>>
probeVars == <<read_buf, fd, file_size, aligned_size, bytes_read, ret, rc,
               n_reads, n_free, n_close, all_ok, reseek_failed>>
sdVars == <<n_query, n_ready, n_hb>>
outVars == <<cfg_error, usage, help_seen>>

----------------------------------------------------------------------------
(* Bounds of the model *)

\* options on the command line
MaxArgs == 3
\* iterations of the monitor loop that are explored
MaxIter == 3
\* whole 512-byte blocks of the largest file
MaxBlocks == 2

----------------------------------------------------------------------------
(* Constants of the program *)

BUFFER_SIZE == 512
DEFAULT_INTERVAL == 10000

NULL == "NULL"
NoExit == 0 - 1

\* the counts noted at the first handled signal, before any
NoSnap == [probes |-> 0, hb |-> 0]

\* 16-bit limbs carry the 64-bit and 32-bit unsigned values
Limb == 2^16
HalfLimb == 2^15

----------------------------------------------------------------------------
(* Integer conversions *)

\* uint64_t / 2 on four little-endian limbs
HalfU64(t) ==
    [i \in 1..4 |-> (t[i] \div 2) + (IF i < 4 THEN (t[i + 1] % 2) * HalfLimb ELSE 0)]

\* uint64_t -> int: the low 32 bits, read as two's complement
U64ToInt(t) ==
    IF t[2] >= HalfLimb THEN (t[2] - Limb) * Limb + t[1]
                        ELSE t[2] * Limb + t[1]

\* int -> useconds_t (unsigned 32 bits), widened to four limbs
IntToU32(i) == <<i % Limb, (i \div Limb) % Limb, 0, 0>>

\* a * b in 32-bit two's complement, for 0 <= b < 2^15
WrapMul32(a, b) ==
    LET u  == IntToU32(a)
        p0 == u[1] * b
        p1 == u[2] * b + (p0 \div Limb)
    IN  U64ToInt(<<p0 % Limb, p1 % Limb, 0, 0>>)

\* whether a * b fits an int, for 0 <= b < 2^15
MulFits(a, b) ==
    LET lim == ((HalfLimb - 1) * Limb + (Limb - 1)) \div b
    IN  a <= lim /\ a >= -lim

Digits == <<"0", "1", "2", "3", "4", "5", "6", "7", "8", "9">>
IsDigit(c) == \E d \in 1..10 : Digits[d] = c
DigitVal(c) == (CHOOSE d \in 1..10 : Digits[d] = c) - 1

RECURSIVE AtoiDigits(_, _)
AtoiDigits(s, acc) ==
    IF s = <<>> \/ ~IsDigit(Head(s)) THEN acc
    ELSE AtoiDigits(Tail(s), acc * 10 + DigitVal(Head(s)))

RECURSIVE SkipSpace(_)
SkipSpace(s) == IF s # <<>> /\ Head(s) = " " THEN SkipSpace(Tail(s)) ELSE s

\* atoi(3): blanks, an optional sign, then digits up to the first non-digit
atoi(str) ==
    LET s == SkipSpace(str)
    IN  IF s = <<>> THEN 0
        ELSE IF Head(s) = "-" THEN 0 - AtoiDigits(Tail(s), 0)
        ELSE IF Head(s) = "+" THEN AtoiDigits(Tail(s), 0)
        ELSE AtoiDigits(s, 0)

----------------------------------------------------------------------------
(* Inputs *)

\* optarg strings given to --interval
IntervalArgs ==
    { <<"5">>, <<"0">>, <<"-", "5">>, <<"x">>,
      <<"5", "0", "0", "0", "0", "0", "0">>,
      <<"-", "3", "0", "0", "0", "0", "0", "0">> }

\* what getopt_long can return for one option (lines 113-122)
Options ==
    { [opt |-> "f", optarg |-> <<"/", "t">>] }
    \cup { [opt |-> "i", optarg |-> a] : a \in IntervalArgs }
    \cup { [opt |-> o, optarg |-> <<>>] : o \in {"h", "v", "d", "?"} }

RECURSIVE SeqsUpTo(_, _)
SeqsUpTo(S, n) ==
    IF n = 0 THEN { <<>> }
    ELSE LET shorter == SeqsUpTo(S, n - 1)
         IN  shorter \cup { Append(s, x) : s \in shorter, x \in S }

\* WATCHDOG_USEC values sd_watchdog_enabled can report: 1, 20001, 2^32, 2^33 + 6
WatchdogTimeouts ==
    { <<1, 0, 0, 0>>, <<20001, 0, 0, 0>>, <<0, 0, 1, 0>>, <<6, 0, 2, 0>> }

\* sizes of whole blocks, and of whole blocks and a partial one
FileSizes == { b * BUFFER_SIZE + r : b \in 0..MaxBlocks, r \in {0, BUFFER_SIZE - 1} }

NoStat == [ok |-> FALSE, reg |-> FALSE, size |-> 0]
StatResults ==
    { NoStat }
    \cup { [ok |-> TRUE, reg |-> FALSE, size |-> BUFFER_SIZE] }
    \cup { [ok |-> TRUE, reg |-> TRUE, size |-> s] : s \in FileSizes }

\* what one read(fd, read_buf, BUFFER_SIZE) can return
ReadReturns == { -1, 0, 100, BUFFER_SIZE }

Signals == { "SIGINT", "SIGTERM" }

----------------------------------------------------------------------------
(* Initial state: the globals of lines 15-19, main not yet started *)

Init ==
    /\ args \in SeqsUpTo(Options, MaxArgs)
    /\ test_file = NULL
    /\ interval_us = DEFAULT_INTERVAL
    /\ verbose_mode = 0
    /\ debug_mode = 0
    /\ running = 1
    /\ iteration = 0
    /\ read_result = 0
    /\ handlers = {}
    /\ watchdog_usec = <<0, 0, 0, 0>>
    /\ watchdog_enabled = 0
    /\ st = NoStat
    /\ pc = "parse"
    /\ exit_code = NoExit
    /\ read_buf = "none"
    /\ fd = "none"
    /\ file_size = 0
    /\ aligned_size = 0
    /\ bytes_read = 0
    /\ ret = 0
    /\ rc = 0
    /\ n_query = 0 /\ n_ready = 0 /\ n_hb = 0 /\ n_probe = 0 /\ n_ok = 0
    /\ n_check = 0 /\ n_sleep = 0
    /\ n_reads = 0 /\ n_free = 0 /\ n_close = 0
    /\ hb_iter = FALSE
    /\ all_ok = TRUE
    /\ reseek_failed = FALSE
    /\ sig_pc = "none"
    /\ sig_snap = NoSnap
    /\ cfg_error = FALSE
    /\ usage = FALSE
    /\ help_seen = FALSE
    /\ checked = "none"
    /\ slept_us = <<0, 0, 0, 0>>
    /\ test_file_freed = FALSE

----------------------------------------------------------------------------
(* parse_args, lines 110-186 *)

\* parse_args returns -1 and main returns 1 (lines 214-216)
BadArguments(printUsage) ==
    /\ cfg_error' = TRUE
    /\ usage' = printUsage
    /\ UNCHANGED help_seen
    /\ pc' = "exited"
    /\ exit_code' = 1

\* case 'f', lines 124-130
OptFile ==
    /\ pc = "parse" /\ args # <<>> /\ Head(args).opt = "f"
    /\ args' = Tail(args)
    /\ \E strdup_ok \in BOOLEAN :
         IF strdup_ok
         THEN /\ test_file' = Head(args).optarg
              /\ UNCHANGED <<pc, exit_code, outVars>>
         ELSE /\ test_file' = NULL
              /\ BadArguments(FALSE)
    /\ UNCHANGED <<interval_us, verbose_mode, debug_mode, running, iteration,
                   read_result, handlers, wdVars, st, probeVars, sdVars,
                   n_probe, n_ok, n_check, checked, n_sleep, hb_iter, sig_pc, sig_snap, slept_us,
                   test_file_freed>>

\* case 'i', lines 131-137.  A product that does not fit an int is undefined:
\* the variable gets the wrapped value and the test of line 133 is made either
\* on it or, by a compiler that assumes no overflow, on the sign of atoi's result.
OptInterval ==
    /\ pc = "parse" /\ args # <<>> /\ Head(args).opt = "i"
    /\ args' = Tail(args)
    /\ LET ms == atoi(Head(args).optarg)
           v  == WrapMul32(ms, 1000)
       IN  /\ interval_us' = v
           /\ \E invalid \in (IF MulFits(ms, 1000) THEN {v <= 0} ELSE {v <= 0, ms <= 0}) :
                IF invalid
                THEN BadArguments(FALSE)
                ELSE UNCHANGED <<pc, exit_code, outVars>>
    /\ UNCHANGED <<test_file, verbose_mode, debug_mode, running, iteration,
                   read_result, handlers, wdVars, st, probeVars, sdVars,
                   n_probe, n_ok, n_check, checked, n_sleep, hb_iter, sig_pc, sig_snap, slept_us,
                   test_file_freed>>

\* case 'v', lines 138-140
OptVerbose ==
    /\ pc = "parse" /\ args # <<>> /\ Head(args).opt = "v"
    /\ args' = Tail(args)
    /\ verbose_mode' = 1
    /\ UNCHANGED <<test_file, interval_us, debug_mode, running, iteration,
                   read_result, handlers, wdVars, st, pc, exit_code, probeVars,
                   sdVars, n_probe, n_ok, n_check, checked, n_sleep, hb_iter, sig_pc, sig_snap, outVars,
                   slept_us, test_file_freed>>

\* case 'd', lines 141-144
OptDebug ==
    /\ pc = "parse" /\ args # <<>> /\ Head(args).opt = "d"
    /\ args' = Tail(args)
    /\ debug_mode' = 1
    /\ verbose_mode' = 1
    /\ UNCHANGED <<test_file, interval_us, running, iteration, read_result,
                   handlers, wdVars, st, pc, exit_code, probeVars, sdVars,
                   n_probe, n_ok, n_check, checked, n_sleep, hb_iter, sig_pc, sig_snap, outVars,
                   slept_us, test_file_freed>>

\* OptHelp without exit(0): case 'h' falls through into default
OptHelpFallThrough ==
    /\ pc = "parse" /\ args # <<>> /\ Head(args).opt = "h"
    /\ args' = Tail(args)
    /\ cfg_error' = TRUE
    /\ usage' = TRUE
    /\ help_seen' = TRUE
    /\ pc' = "exited"
    /\ exit_code' = 1
    /\ UNCHANGED <<cfgVars, running, iteration, read_result, handlers, wdVars,
                   st, probeVars, sdVars, n_probe, n_ok, n_check, checked,
                   n_sleep, hb_iter, sig_pc, sig_snap, slept_us, test_file_freed>>

\* case 'h', lines 145-147: print_usage, exit(0)
OptHelp ==
    /\ pc = "parse" /\ args # <<>> /\ Head(args).opt = "h"
    /\ args' = Tail(args)
    /\ usage' = TRUE
    /\ help_seen' = TRUE
    /\ pc' = "exited"
    /\ exit_code' = 0
    /\ UNCHANGED <<cfgVars, running, iteration, read_result, handlers, wdVars,
                   st, probeVars, sdVars, n_probe, n_ok, n_check, checked, n_sleep, hb_iter,
                   sig_pc, sig_snap, cfg_error, slept_us, test_file_freed>>

\* default, lines 148-150
OptUnknown ==
    /\ pc = "parse" /\ args # <<>> /\ Head(args).opt = "?"
    /\ args' = Tail(args)
    /\ BadArguments(TRUE)
    /\ UNCHANGED <<cfgVars, running, iteration, read_result, handlers, wdVars,
                   st, probeVars, sdVars, n_probe, n_ok, n_check, checked, n_sleep, hb_iter,
                   sig_pc, sig_snap, slept_us, test_file_freed>>

\* getopt_long returns -1; lines 154-158 and the test of line 161
GetoptEnd ==
    /\ pc = "parse" /\ args = <<>>
    /\ IF test_file = NULL
       THEN BadArguments(TRUE)
       ELSE /\ pc' = IF debug_mode = 0 THEN "wd_query" ELSE "sig_int"
            /\ UNCHANGED <<exit_code, outVars>>
    /\ UNCHANGED <<args, cfgVars, running, iteration, read_result, handlers,
                   wdVars, st, probeVars, sdVars, n_probe, n_ok, n_check, checked, n_sleep,
                   hb_iter, sig_pc, sig_snap, slept_us, test_file_freed>>

\* lines 162-175, sd_watchdog_enabled reports a timeout
WatchdogEnabled ==
    /\ pc = "wd_query"
    /\ n_query' = n_query + 1
    /\ \E t \in WatchdogTimeouts :
         /\ watchdog_usec' = t
         /\ interval_us' = U64ToInt(HalfU64(t))
    /\ watchdog_enabled' = 1
    /\ pc' = "sig_int"
    /\ UNCHANGED <<args, test_file, verbose_mode, debug_mode, running,
                   iteration, read_result, handlers, st, exit_code, probeVars,
                   n_ready, n_hb, n_probe, n_ok, n_check, checked, n_sleep, hb_iter, sig_pc, sig_snap,
                   outVars, slept_us, test_file_freed>>

\* lines 162-164, sd_watchdog_enabled returns 0 (no watchdog) or an error
WatchdogDisabled ==
    /\ pc = "wd_query"
    /\ n_query' = n_query + 1
    /\ \E r \in {0 - 1, 0} : watchdog_enabled' = r
    /\ pc' = "sig_int"
    /\ UNCHANGED <<args, cfgVars, running, iteration, read_result, handlers,
                   watchdog_usec, st, exit_code, probeVars, n_ready, n_hb,
                   n_probe, n_ok, n_check, checked, n_sleep, hb_iter, sig_pc, sig_snap, outVars,
                   slept_us, test_file_freed>>

----------------------------------------------------------------------------
(* main up to the loop, lines 218-234 *)

\* line 219
InstallSigint ==
    /\ pc = "sig_int"
    /\ handlers' = handlers \cup {"SIGINT"}
    /\ pc' = "sig_term"
    /\ UNCHANGED <<args, cfgVars, running, iteration, read_result, wdVars, st,
                   exit_code, probeVars, sdVars, n_probe, n_ok, n_check, checked, n_sleep,
                   hb_iter, sig_pc, sig_snap, outVars, slept_us, test_file_freed>>

\* line 220
InstallSigterm ==
    /\ pc = "sig_term"
    /\ handlers' = handlers \cup {"SIGTERM"}
    /\ pc' = "stat"
    /\ UNCHANGED <<args, cfgVars, running, iteration, read_result, wdVars, st,
                   exit_code, probeVars, sdVars, n_probe, n_ok, n_check, checked, n_sleep,
                   hb_iter, sig_pc, sig_snap, outVars, slept_us, test_file_freed>>

\* line 191, the stat() call of check_test_file
Stat ==
    /\ pc = "stat"
    /\ st' \in StatResults
    /\ n_check' = n_check + 1
    /\ pc' = "check"
    /\ UNCHANGED <<args, checked, cfgVars, running, iteration, read_result, handlers,
                   wdVars, exit_code, probeVars, sdVars, n_probe, n_ok, n_sleep,
                   hb_iter, sig_pc, sig_snap, outVars, slept_us, test_file_freed>>

\* check_test_file without the test of line 201
check_test_file_no_size(s) ==
    IF ~s.ok THEN 0 - 1
    ELSE IF ~s.reg THEN 0 - 1
    ELSE 0

\* check_test_file asking for one whole block at line 201
check_test_file_whole_block(s) ==
    IF ~s.ok THEN 0 - 1
    ELSE IF ~s.reg THEN 0 - 1
    ELSE IF s.size < BUFFER_SIZE THEN 0 - 1
    ELSE 0

\* lines 191-206, the value check_test_file returns for what stat() reported
check_test_file(s) ==
    IF ~s.ok THEN 0 - 1
    ELSE IF ~s.reg THEN 0 - 1
    ELSE IF s.size = 0 THEN 0 - 1
    ELSE 0

\* lines 223-226 without the return: a failed check is logged and main goes on
CheckFailedContinues ==
    /\ pc = "check"
    /\ check_test_file(st) < 0
    /\ checked' = "failed"
    /\ pc' = "notify_ready"
    /\ UNCHANGED <<args, cfgVars, running, iteration, read_result, handlers,
                   wdVars, st, exit_code, probeVars, sdVars, n_probe, n_ok, n_check,
                   n_sleep, hb_iter, sig_pc, sig_snap, outVars, slept_us, test_file_freed>>

\* lines 223-226
CheckFailed ==
    /\ pc = "check"
    /\ check_test_file(st) < 0
    /\ checked' = "failed"
    /\ test_file_freed' = TRUE
    /\ pc' = "exited"
    /\ exit_code' = 1
    /\ UNCHANGED <<args, cfgVars, running, iteration, read_result, handlers,
                   wdVars, st, probeVars, sdVars, n_probe, n_ok, n_check,
                   n_sleep, hb_iter, sig_pc, sig_snap, outVars, slept_us>>

\* line 223, the check passed; the struct stat of check_test_file is gone
CheckPassed ==
    /\ pc = "check"
    /\ ~(check_test_file(st) < 0)
    /\ checked' = "passed"
    /\ st' = NoStat
    /\ pc' = "notify_ready"
    /\ UNCHANGED <<args, cfgVars, running, iteration, read_result, handlers,
                   wdVars, exit_code, probeVars, sdVars, n_probe, n_ok, n_check,
                   n_sleep, hb_iter, sig_pc, sig_snap, outVars, slept_us, test_file_freed>>

\* lines 229-231
NotifyReady ==
    /\ pc = "notify_ready"
    /\ n_ready' = IF debug_mode = 0 THEN n_ready + 1 ELSE n_ready
    /\ pc' = "loop_check"
    /\ UNCHANGED <<args, cfgVars, running, iteration, read_result, handlers,
                   wdVars, st, exit_code, probeVars, n_query, n_hb, n_probe, n_ok,
                   n_check, checked, n_sleep, hb_iter, sig_pc, sig_snap, outVars, slept_us,
                   test_file_freed>>

----------------------------------------------------------------------------
(* test_read, lines 28-92 *)

\* test_read leaves with value code (a return statement)
Return(code) ==
    /\ rc' = code
    /\ pc' = "p_ret"

\* lines 36-40: posix_memalign, memset
ProbeAlloc ==
    /\ pc = "p_alloc"
    /\ \E ok \in BOOLEAN :
         IF ok
         THEN /\ read_buf' = "held"
              /\ pc' = "p_open"
              /\ UNCHANGED <<rc, all_ok>>
         ELSE /\ Return(1)
              /\ all_ok' = FALSE
              /\ UNCHANGED read_buf
    /\ UNCHANGED <<args, cfgVars, running, iteration, read_result, handlers,
                   wdVars, st, exit_code, fd, file_size, aligned_size,
                   bytes_read, ret, n_reads, n_free, n_close, reseek_failed,
                   sdVars, n_probe, n_ok, n_check, checked, n_sleep, hb_iter, sig_pc, sig_snap, outVars,
                   slept_us, test_file_freed>>

\* lines 42-47: open(filename, O_RDONLY | O_DIRECT)
ProbeOpen ==
    /\ pc = "p_open"
    /\ \E ok \in BOOLEAN :
         IF ok
         THEN /\ fd' = "open"
              /\ pc' = "p_seek_end"
              /\ UNCHANGED <<rc, all_ok, read_buf, n_free>>
         ELSE /\ read_buf' = "freed"
              /\ n_free' = n_free + 1
              /\ Return(2)
              /\ all_ok' = FALSE
              /\ UNCHANGED fd
    /\ UNCHANGED <<args, cfgVars, running, iteration, read_result, handlers,
                   wdVars, st, exit_code, file_size, aligned_size, bytes_read,
                   ret, n_reads, n_close, reseek_failed, sdVars, n_probe, n_ok,
                   n_check, checked, n_sleep, hb_iter, sig_pc, sig_snap, outVars, slept_us,
                   test_file_freed>>

\* lines 49-55: lseek(fd, 0, SEEK_END)
ProbeSeekEnd ==
    /\ pc = "p_seek_end"
    /\ \E size \in FileSizes \cup {0 - 1} :
         /\ file_size' = size
         /\ IF size < 0
            THEN /\ fd' = "closed"
                 /\ n_close' = n_close + 1
                 /\ read_buf' = "freed"
                 /\ n_free' = n_free + 1
                 /\ Return(3)
                 /\ all_ok' = FALSE
            ELSE /\ pc' = "p_seek_set"
                 /\ UNCHANGED <<rc, all_ok, read_buf, n_free, fd, n_close>>
    /\ UNCHANGED <<args, cfgVars, running, iteration, read_result, handlers,
                   wdVars, st, exit_code, aligned_size, bytes_read, ret,
                   n_reads, reseek_failed, sdVars, n_probe, n_ok, n_check, checked, n_sleep,
                   hb_iter, sig_pc, sig_snap, outVars, slept_us, test_file_freed>>

\* AlignedSize rounding up to the block that holds the last byte
AlignedSizeRoundUp(size) == ((size + BUFFER_SIZE - 1) \div BUFFER_SIZE) * BUFFER_SIZE

\* line 60: the whole blocks of a file of size bytes
AlignedSize(size) == (size \div BUFFER_SIZE) * BUFFER_SIZE

\* lines 57-62: lseek(fd, 0, SEEK_SET), its result not looked at; aligned_size
ProbeSeekSet ==
    /\ pc = "p_seek_set"
    /\ \E ok \in BOOLEAN :
         /\ reseek_failed' = ~ok
         /\ all_ok' = (all_ok /\ ok)
    /\ aligned_size' = AlignedSize(file_size)
    /\ bytes_read' = 0
    /\ pc' = "p_read"
    /\ UNCHANGED <<args, cfgVars, running, iteration, read_result, handlers,
                   wdVars, st, exit_code, read_buf, fd, file_size, ret, rc,
                   n_reads, n_free, n_close, sdVars, n_probe, n_ok, n_check, checked, n_sleep,
                   hb_iter, sig_pc, sig_snap, outVars, slept_us, test_file_freed>>

\* ReadOutcome without the short-read test of lines 75-80
ReadOutcomeAcceptsShort(r) ==
    IF r < 0 THEN 4
    ELSE IF r = 0 THEN 5
    ELSE 0

\* lines 65-80: the outcome of one read() that returned r, 0 to go on
ReadOutcome(r) ==
    IF r < 0 THEN 4
    ELSE IF r = 0 THEN 5
    ELSE IF r # BUFFER_SIZE THEN 6
    ELSE 0

\* lines 63-82: one turn of the read loop
ProbeRead ==
    /\ pc = "p_read"
    /\ bytes_read < aligned_size
    /\ \E r \in ReadReturns :
         /\ ret' = r
         /\ n_reads' = n_reads + 1
         /\ all_ok' = (all_ok /\ r = BUFFER_SIZE)
         /\ IF ReadOutcome(r) # 0
            THEN /\ fd' = "closed"
                 /\ n_close' = n_close + 1
                 /\ read_buf' = "freed"
                 /\ n_free' = n_free + 1
                 /\ Return(ReadOutcome(r))
                 /\ UNCHANGED bytes_read
            ELSE /\ bytes_read' = bytes_read + r
                 /\ UNCHANGED <<pc, rc, read_buf, n_free, fd, n_close>>
    /\ UNCHANGED <<args, cfgVars, running, iteration, read_result, handlers,
                   wdVars, st, exit_code, file_size, aligned_size,
                   reseek_failed, sdVars, n_probe, n_ok, n_check, checked, n_sleep, hb_iter,
                   sig_pc, sig_snap, outVars, slept_us, test_file_freed>>

\* line 63, the loop condition is false
ProbeReadDone ==
    /\ pc = "p_read"
    /\ ~(bytes_read < aligned_size)
    /\ pc' = "p_close"
    /\ UNCHANGED <<args, cfgVars, running, iteration, read_result, handlers,
                   wdVars, st, exit_code, probeVars, sdVars, n_probe, n_ok, n_check, checked,
                   n_sleep, hb_iter, sig_pc, sig_snap, outVars, slept_us, test_file_freed>>

\* lines 84-91 with the failure branch of close returning before free(read_buf)
ProbeCloseLeaksOnFailure ==
    /\ pc = "p_close"
    /\ fd' = "closed"
    /\ n_close' = n_close + 1
    /\ \E ok \in BOOLEAN :
         /\ Return(IF ok THEN 0 ELSE 7)
         /\ all_ok' = (all_ok /\ ok)
         /\ IF ok
            THEN read_buf' = "freed" /\ n_free' = n_free + 1
            ELSE UNCHANGED <<read_buf, n_free>>
    /\ UNCHANGED <<args, cfgVars, running, iteration, read_result, handlers,
                   wdVars, st, exit_code, file_size, aligned_size, bytes_read,
                   ret, n_reads, reseek_failed, sdVars, n_probe, n_ok, n_check, checked,
                   n_sleep, hb_iter, sig_pc, sig_snap, outVars, slept_us, test_file_freed>>

\* lines 84-91: close(fd), free(read_buf)
ProbeClose ==
    /\ pc = "p_close"
    /\ fd' = "closed"
    /\ n_close' = n_close + 1
    /\ read_buf' = "freed"
    /\ n_free' = n_free + 1
    /\ \E ok \in BOOLEAN :
         /\ Return(IF ok THEN 0 ELSE 7)
         /\ all_ok' = (all_ok /\ ok)
    /\ UNCHANGED <<args, cfgVars, running, iteration, read_result, handlers,
                   wdVars, st, exit_code, file_size, aligned_size, bytes_read,
                   ret, n_reads, reseek_failed, sdVars, n_probe, n_ok, n_check, checked,
                   n_sleep, hb_iter, sig_pc, sig_snap, outVars, slept_us, test_file_freed>>

\* line 239: test_read returns into read_result, its locals are gone
ProbeReturn ==
    /\ pc = "p_ret"
    /\ read_result' = rc
    /\ n_ok' = IF rc = 0 THEN n_ok + 1 ELSE n_ok
    /\ read_buf' = "none" /\ fd' = "none"
    /\ file_size' = 0 /\ aligned_size' = 0 /\ bytes_read' = 0
    /\ ret' = 0 /\ rc' = 0
    /\ n_reads' = 0 /\ n_free' = 0 /\ n_close' = 0
    /\ all_ok' = TRUE /\ reseek_failed' = FALSE
    /\ pc' = "after_probe"
    /\ UNCHANGED <<args, cfgVars, running, iteration, handlers, wdVars, st,
                   exit_code, sdVars, n_probe, n_check, checked, n_sleep, hb_iter,
                   sig_pc, sig_snap, outVars, slept_us, test_file_freed>>

----------------------------------------------------------------------------
(* The monitor loop, lines 236-257 *)

\* LoopEnter of a loop that does not look at running ("while (1)")
LoopEnterUnchecked ==
    /\ pc = "loop_check"
    /\ n_probe < MaxIter
    /\ iteration' = IF verbose_mode # 0 THEN iteration + 1 ELSE iteration
    /\ n_probe' = n_probe + 1
    /\ hb_iter' = FALSE
    /\ pc' = "p_alloc"
    /\ UNCHANGED <<args, n_ok, cfgVars, running, read_result, handlers, wdVars,
                   st, exit_code, probeVars, sdVars, n_check, checked, n_sleep,
                   sig_pc, sig_snap, outVars, slept_us, test_file_freed>>

\* lines 236-239: running is read; the body starts with the call of test_read.
\* ++iteration is an argument of LOG_VERBOSE and is evaluated in verbose mode
\* only.  MaxIter iterations are explored.
LoopEnter ==
    /\ pc = "loop_check"
    /\ running # 0
    /\ n_probe < MaxIter
    /\ iteration' = IF verbose_mode # 0 THEN iteration + 1 ELSE iteration
    /\ n_probe' = n_probe + 1
    /\ hb_iter' = FALSE
    /\ pc' = "p_alloc"
    /\ UNCHANGED <<args, n_ok, cfgVars, running, read_result, handlers, wdVars, st,
                   exit_code, probeVars, sdVars, n_check, checked, n_sleep, sig_pc, sig_snap,
                   outVars, slept_us, test_file_freed>>

\* LoopExit of a loop that also ends on a failed probe
LoopExitOnFailure ==
    /\ pc = "loop_check"
    /\ (running = 0 \/ read_result # 0)
    /\ pc' = "shutdown"
    /\ UNCHANGED <<args, cfgVars, running, iteration, read_result, handlers,
                   wdVars, st, exit_code, probeVars, sdVars, n_probe, n_ok,
                   n_check, checked, n_sleep, hb_iter, sig_pc, sig_snap, outVars,
                   slept_us, test_file_freed>>

\* line 236: running is 0, the loop is left
LoopExit ==
    /\ pc = "loop_check"
    /\ running = 0
    /\ pc' = "shutdown"
    /\ UNCHANGED <<args, cfgVars, running, iteration, read_result, handlers,
                   wdVars, st, exit_code, probeVars, sdVars, n_probe, n_ok, n_check, checked,
                   n_sleep, hb_iter, sig_pc, sig_snap, outVars, slept_us, test_file_freed>>

\* SendsHeartbeat without the test of line 240
SendsHeartbeatAlways == debug_mode = 0

\* SendsHeartbeat without the test of line 247
SendsHeartbeatInDebug == read_result = 0

\* whether lines 240-250 send WATCHDOG=1
SendsHeartbeat == read_result = 0 /\ debug_mode = 0

\* lines 240-252: the heartbeat or not, then usleep(interval_us) is entered
AfterProbe ==
    /\ pc = "after_probe"
    /\ IF SendsHeartbeat
       THEN /\ n_hb' = n_hb + 1
            /\ hb_iter' = TRUE
       ELSE UNCHANGED <<n_hb, hb_iter>>
    /\ n_sleep' = n_sleep + 1
    /\ slept_us' = IntToU32(interval_us)
    /\ pc' = "sleep"
    /\ UNCHANGED <<args, cfgVars, running, iteration, read_result, handlers,
                   wdVars, st, exit_code, probeVars, n_query, n_ready, n_probe, n_ok,
                   n_check, checked, sig_pc, sig_snap, outVars, test_file_freed>>

\* line 252: usleep returns, the time elapsed or a signal handled
SleepReturn ==
    /\ pc = "sleep"
    /\ pc' = "loop_check"
    /\ UNCHANGED <<args, cfgVars, running, iteration, read_result, handlers,
                   wdVars, st, exit_code, probeVars, sdVars, n_probe, n_ok, n_check, checked,
                   n_sleep, hb_iter, sig_pc, sig_snap, outVars, slept_us, test_file_freed>>

\* lines 255-257 without the free of line 256
ShutdownLeaks ==
    /\ pc = "shutdown"
    /\ pc' = "exited"
    /\ exit_code' = 0
    /\ UNCHANGED <<args, cfgVars, running, iteration, read_result, handlers,
                   wdVars, st, probeVars, sdVars, n_probe, n_ok, n_check, checked, n_sleep,
                   hb_iter, sig_pc, sig_snap, outVars, slept_us, test_file_freed>>

\* lines 255-257
Shutdown ==
    /\ pc = "shutdown"
    /\ test_file_freed' = TRUE
    /\ pc' = "exited"
    /\ exit_code' = 0
    /\ UNCHANGED <<args, cfgVars, running, iteration, read_result, handlers,
                   wdVars, st, probeVars, sdVars, n_probe, n_ok, n_check, checked, n_sleep,
                   hb_iter, sig_pc, sig_snap, outVars, slept_us>>

----------------------------------------------------------------------------
(* Signals *)

Alive == pc \notin {"exited", "killed"}

\* where a signal finds the process: the position itself, the positions
\* inside test_read taken together as "probe"
SigPhase(p) ==
    IF p \in {"p_alloc", "p_open", "p_seek_end", "p_seek_set", "p_read",
              "p_close", "p_ret"}
    THEN "probe"
    ELSE p

\* probes whose test_read has been entered: all iterations entered, less the
\* one whose call of test_read is still ahead
Begun == n_probe - (IF pc = "p_alloc" THEN 1 ELSE 0)

\* a handler that flips the flag instead of clearing it
signal_handler_flips ==
    /\ running' = 1 - running
    /\ sig_pc' = IF sig_pc = "none" THEN SigPhase(pc) ELSE sig_pc
    /\ sig_snap' = IF sig_pc = "none" THEN [probes |-> Begun, hb |-> n_hb]
                                      ELSE sig_snap

\* lines 94-97, run when a signal it is installed for is delivered
signal_handler ==
    /\ running' = 0
    /\ sig_pc' = IF sig_pc = "none" THEN SigPhase(pc) ELSE sig_pc
    /\ sig_snap' = IF sig_pc = "none" THEN [probes |-> Begun, hb |-> n_hb]
                                      ELSE sig_snap

\* SIGINT or SIGTERM is delivered to the process: the handler runs if lines
\* 219-220 have installed it, and the default action ends the process if not
Signal ==
    /\ Alive
    /\ \E sig \in Signals :
         IF sig \in handlers
         THEN /\ signal_handler
              /\ UNCHANGED pc
         ELSE /\ pc' = "killed"
              /\ UNCHANGED <<running, sig_pc, sig_snap>>
    /\ UNCHANGED <<args, cfgVars, iteration, read_result, handlers, wdVars, st,
                   exit_code, probeVars, sdVars, n_probe, n_ok, n_check, checked, n_sleep,
                   hb_iter, outVars, slept_us, test_file_freed>>

----------------------------------------------------------------------------

\* one step of the process itself
ProcessStep ==
    \/ OptFile \/ OptInterval \/ OptVerbose \/ OptDebug \/ OptHelp
    \/ OptUnknown \/ GetoptEnd \/ WatchdogEnabled \/ WatchdogDisabled
    \/ InstallSigint \/ InstallSigterm \/ Stat \/ CheckFailed \/ CheckPassed
    \/ NotifyReady \/ LoopEnter \/ LoopExit
    \/ ProbeAlloc \/ ProbeOpen \/ ProbeSeekEnd \/ ProbeSeekSet \/ ProbeRead
    \/ ProbeReadDone \/ ProbeClose \/ ProbeReturn
    \/ AfterProbe \/ SleepReturn \/ Shutdown

Next == ProcessStep \/ Signal

Spec == Init /\ [][Next]_vars

\* The process is single-threaded and is scheduled: whenever it has a next
\* statement it executes it, every system call and usleep returning.
LiveSpec == Init /\ [][Next]_vars /\ WF_vars(ProcessStep)

----------------------------------------------------------------------------
(* Properties *)

LoopPcs == {"loop_check", "p_alloc", "p_open", "p_seek_end", "p_seek_set",
            "p_read", "p_close", "p_ret", "after_probe", "sleep"}

HelpLeft == \E i \in DOMAIN args : args[i].opt = "h"
DebugLeft == \E i \in DOMAIN args : args[i].opt = "d"

\* C1: with debug mode off, an iteration has sent a heartbeat exactly when its
\* probe returned 0: at the sleep of an iteration the heartbeat of that
\* iteration is out iff read_result = 0, and a heartbeat of the iteration is
\* never out before its probe returned 0.
C1_HeartbeatIffProbeSucceeded ==
    debug_mode = 0 =>
        /\ (pc = "sleep" => (hb_iter <=> read_result = 0))
        /\ (hb_iter => /\ read_result = 0
                       /\ pc \in {"sleep", "loop_check", "shutdown", "exited"})

\* a second iteration failed and stays silent after a first that sent a heartbeat
C1_Witness ==
    /\ pc = "sleep" /\ debug_mode = 0 /\ n_probe = 2
    /\ read_result \in 1..7 /\ ~hb_iter /\ n_hb = 1

\* C2: an execution started with -d (the option already read, or still to be
\* read) never queries the watchdog timeout, never sends READY=1 and never
\* sends WATCHDOG=1.
C2_DebugNeverContactsSupervisor ==
    (debug_mode = 1 \/ DebugLeft) => n_query = 0 /\ n_ready = 0 /\ n_hb = 0

\* in debug mode, at the sleep of a second iteration whose probe succeeded
C2_Witness ==
    /\ debug_mode = 1 /\ pc = "sleep" /\ read_result = 0 /\ n_probe = 2 /\ n_ok = 2

C3_Safety ==
    /\ (n_probe > 0 => pc # "killed")
    /\ (n_probe > 0 /\ pc \in {"shutdown", "exited"} => running = 0)
    /\ (n_probe > 0 /\ pc = "exited" => exit_code = 0)
    /\ (pc = "loop_check" /\ running # 0 /\ n_probe < MaxIter => ENABLED LoopEnter)
    /\ (debug_mode = 0 /\ pc # "after_probe" => n_hb = n_ok)
    /\ (debug_mode = 0 /\ pc = "after_probe" =>
            n_hb = n_ok - (IF read_result = 0 THEN 1 ELSE 0))

\* C3: probe failures are not fatal and do not latch: once the loop has
\* probed, the process ends only through running = 0 and with code 0; at the
\* loop check with running set the next probe can start and, the process
\* being scheduled, does start unless a signal clears running, whatever the
\* results so far; and (debug off) the heartbeats sent are exactly the probes
\* that returned 0, so only the failed iterations are silent.
C3_FailuresNeitherFatalNorLatching ==
    /\ []C3_Safety
    /\ (pc = "loop_check" /\ running # 0 /\ n_probe < MaxIter)
            ~> (pc = "p_alloc" \/ running = 0)

\* the third probe succeeded after two failed ones and its heartbeat is the
\* only one sent
C3_Witness ==
    /\ pc = "sleep" /\ debug_mode = 0 /\ running # 0
    /\ n_probe = 3 /\ read_result = 0 /\ hb_iter /\ n_hb = 1

\* C4: once a signal has cleared running during the sleep, the process only
\* goes from the sleep to the loop check, to the shutdown and to exit code 0,
\* and, being scheduled, gets there; no probe is started, no heartbeat is sent
\* and no further sleep is entered.
C4_SignalInSleepEndsLoop ==
    /\ [](sig_pc = "sleep" =>
            /\ running = 0
            /\ pc \in {"sleep", "loop_check", "shutdown", "exited"}
            /\ (pc = "exited" => exit_code = 0))
    /\ [][sig_pc = "sleep" =>
            n_probe' = n_probe /\ n_hb' = n_hb /\ n_sleep' = n_sleep]_vars
    /\ (sig_pc = "sleep") ~> (pc = "exited" /\ exit_code = 0)

\* the process has exited after a signal that came during a sleep
C4_Witness ==
    /\ sig_pc = "sleep" /\ pc = "exited" /\ exit_code = 0 /\ n_probe >= 1

\* C5: with debug off and a watchdog timeout T reported, the interval the
\* loop sleeps (the argument usleep gets) is floor(T / 2).
C5_IntervalIsHalfTimeout ==
    (pc = "sleep" /\ debug_mode = 0 /\ watchdog_enabled > 0) =>
        slept_us = HalfU64(watchdog_usec)

\* C6: the check fails exactly when stat fails, the path is no regular file
\* or its size is 0; a failed check ends the process with code 1 with no
\* probe, no READY=1 and no heartbeat; the check is made at most once, and
\* once before any probe or READY=1.
C6_FailedCheckExitsBeforeLoop ==
    /\ [](checked = "failed" =>
            /\ pc = "exited" /\ exit_code = 1
            /\ n_probe = 0 /\ n_ready = 0 /\ n_hb = 0)
    /\ [](n_check <= 1)
    /\ []((n_probe > 0 \/ n_ready > 0 \/ pc \in LoopPcs) =>
            checked = "passed" /\ n_check = 1)
    /\ [][pc = "check" /\ pc' # "check" =>
            (checked' = "failed" <=> (~st.ok \/ ~st.reg \/ st.size = 0))]_vars

\* the process has exited on an empty regular file
C6_Witness ==
    /\ checked = "failed" /\ pc = "exited" /\ exit_code = 1
    /\ st.ok /\ st.reg /\ st.size = 0

\* C7: a probe in which every call succeeded and every read was full
\* returns 0 after exactly floor(S / 512) reads and floor(S / 512) * 512
\* bytes, S the size it measured; no probe reads past the whole blocks.
C7_WholeBlocksOnly ==
    /\ bytes_read <= aligned_size
    /\ (all_ok => bytes_read = n_reads * BUFFER_SIZE)
    /\ (pc = "p_ret" /\ all_ok =>
            /\ rc = 0
            /\ n_reads = file_size \div BUFFER_SIZE
            /\ bytes_read = (file_size \div BUFFER_SIZE) * BUFFER_SIZE)

\* a clean probe of a file of two blocks and a partial one
C7_Witness ==
    /\ pc = "p_ret" /\ all_ok /\ rc = 0
    /\ file_size % BUFFER_SIZE # 0 /\ n_reads = 2

SmallFileMeasured ==
    /\ pc \in {"p_seek_set", "p_read", "p_close", "p_ret"}
    /\ 0 < file_size /\ file_size < BUFFER_SIZE

\* C8 as stated: a probe that measured 0 < size < 512 issues no read and
\* reports success.
C8_SmallFileAlwaysSucceeds ==
    (pc = "p_ret" /\ SmallFileMeasured) => (n_reads = 0 /\ rc = 0)

\* C8 amended: a file of 0 < size < 512 passes the check; a probe that
\* measured such a size has aligned size 0 and issues no read; it returns 0
\* unless close fails (7); and the iteration of a probe that returned 0 sends
\* the heartbeat (debug off).
C8_SmallFileNoReadSuccessUnlessCloseFails ==
    /\ [][(/\ pc = "check" /\ pc' # "check"
           /\ st.ok /\ st.reg /\ 0 < st.size /\ st.size < BUFFER_SIZE) =>
            checked' = "passed" /\ pc' = "notify_ready"]_vars
    /\ [](SmallFileMeasured => n_reads = 0 /\ bytes_read = 0 /\ aligned_size = 0)
    /\ []((pc = "p_ret" /\ SmallFileMeasured) =>
            /\ rc \in {0, 7}
            /\ (all_ok => rc = 0))
    /\ [][pc = "p_ret" /\ pc' # "p_ret" => read_result' = rc /\ pc' = "after_probe"]_vars
    /\ [][(/\ pc = "after_probe" /\ pc' # "after_probe"
           /\ read_result = 0 /\ debug_mode = 0) =>
            n_hb' = n_hb + 1 /\ hb_iter']_vars

\* a second probe of a small file returns 0 with no read, after a first
\* iteration that sent its heartbeat
C8_Witness ==
    /\ pc = "p_ret" /\ SmallFileMeasured /\ rc = 0 /\ n_reads = 0
    /\ debug_mode = 0 /\ n_probe = 2 /\ n_hb = 1

\* C9 as stated: a process that has exited with -h on its command line
\* (read, or still unread) has printed usage, exited 0 and reported no
\* configuration error.
C9_HelpAnywhereExitsZero ==
    (pc = "exited" /\ (help_seen \/ HelpLeft)) =>
        (exit_code = 0 /\ usage /\ ~cfg_error)

\* C9 amended: when the scan reaches -h the process prints usage and exits 0
\* with no configuration error and no contact with the supervisor, whatever
\* follows and whether or not --file was given; an -h left unread at exit,
\* none having been reached, is behind an option that was rejected, and the
\* process has exited 1.
C9_HelpReachedExitsZero ==
    /\ [](help_seen =>
            /\ pc = "exited" /\ exit_code = 0 /\ usage /\ ~cfg_error
            /\ n_query = 0 /\ n_ready = 0 /\ n_probe = 0)
    /\ []((pc = "exited" /\ HelpLeft /\ ~help_seen) =>
            cfg_error /\ exit_code = 1)
    /\ [][(/\ pc = "parse" /\ args # <<>> /\ Head(args).opt = "h"
           /\ args' # args) => help_seen']_vars

\* -h was reached with no --file given and options still behind it
C9_Witness ==
    /\ help_seen /\ exit_code = 0 /\ test_file = NULL /\ args # <<>>
    /\ interval_us # DEFAULT_INTERVAL

ConfigErrorAhead ==
    /\ pc = "parse"
    /\ \/ args = <<>> /\ test_file = NULL
       \/ args # <<>> /\ Head(args).opt = "?"
       \/ args # <<>> /\ Head(args).opt = "i" /\ atoi(Head(args).optarg) <= 0

\* C10: a missing --file, an --interval value <= 0 and an unknown option
\* each end the process with code 1, with no READY=1, probe or heartbeat;
\* code 0 comes only from help or from the shutdown of the loop after a signal.
C10_ConfigErrorsExitOne ==
    /\ [][ConfigErrorAhead /\ (args' # args \/ pc' \notin {"parse", "killed"}) =>
            cfg_error' /\ pc' = "exited" /\ exit_code' = 1]_vars
    /\ [](cfg_error =>
            /\ pc = "exited" /\ exit_code = 1
            /\ n_ready = 0 /\ n_probe = 0 /\ n_hb = 0)
    /\ [](exit_code = 0 =>
            help_seen \/ (running = 0 /\ sig_pc # "none" /\ test_file_freed))

----------------------------------------------------------------------------
\* the process is past the readiness notification of lines 229-231
PastReady == pc \in LoopPcs \/ pc = "shutdown" \/ (pc = "exited" /\ checked = "passed")

\* C11: with debug mode off READY=1 is sent once and no more; it is sent only
\* when every argument has been parsed without error and the precondition
\* check has passed, every execution that gets past the check has sent it,
\* and at the moment it is sent no probe has started and no heartbeat has
\* been sent.
C11_ReadyOnceBeforeLoop ==
    /\ [](n_ready <= 1)
    /\ [](n_ready = 1 =>
            /\ debug_mode = 0
            /\ args = << >>
            /\ ~cfg_error
            /\ checked = "passed")
    /\ [](debug_mode = 0 /\ PastReady => n_ready = 1)
    /\ [](debug_mode = 0 /\ (n_probe > 0 \/ n_hb > 0) => n_ready = 1)
    /\ [][n_ready' # n_ready =>
            /\ n_ready = 0
            /\ n_ready' = 1
            /\ pc = "notify_ready"
            /\ n_probe = 0
            /\ n_hb = 0
            /\ n_probe' = 0
            /\ n_hb' = 0]_vars

\* READY=1 has been sent and a probe and a heartbeat have followed it
C11_Witness == n_ready = 1 /\ debug_mode = 0 /\ n_probe = 2 /\ n_hb >= 1

----------------------------------------------------------------------------
\* C12 as stated: a termination signal delivered at any point, argument
\* parsing and the supervisor query included, never ends the process other
\* than by the ordered shutdown: the process is never killed, and once a
\* signal has been delivered it exits only with the configuration storage
\* released and exit code 0.
C12_SignalAlwaysGraceful ==
    /\ pc # "killed"
    /\ (sig_pc # "none" /\ pc = "exited" => exit_code = 0 /\ test_file_freed)

\* C12 amended: a signal ends the process by the default action only while
\* its handler is not installed yet (before lines 219-220 are done).  A
\* signal that is handled clears the running flag for good; the loop then
\* exits at its next check; the process exits with the storage released and
\* code 0, or code 1 when the precondition check fails; and once both
\* handlers are installed a cleared flag always leads to that exit.
C12_SignalGracefulOnceInstalled ==
    /\ [](pc = "killed" => handlers # Signals)
    /\ [](sig_pc # "none" => running = 0)
    /\ [][running = 0 /\ pc = "loop_check" /\ pc' # pc => pc' = "shutdown"]_vars
    /\ [](sig_pc # "none" /\ pc = "exited" =>
            /\ test_file_freed
            /\ IF checked = "passed" THEN exit_code = 0
                                     ELSE checked = "failed" /\ exit_code = 1)
    /\ ((handlers = Signals /\ running = 0) ~> (pc = "exited"))

\* a signal was handled inside test_read and the process has left through
\* the shutdown path
C12_Witness ==
    /\ sig_pc = "probe"
    /\ sig_snap.probes = Begun
    /\ pc = "exited"
    /\ exit_code = 0
    /\ test_file_freed
    /\ n_probe >= 1

----------------------------------------------------------------------------
\* ms * 1000 as an unbounded integer (on four limbs), for ms >= 0
MsToUsec(ms) ==
    LET p0 == (ms % Limb) * 1000
        p1 == (ms \div Limb) * 1000 + (p0 \div Limb)
    IN  <<p0 % Limb, p1 % Limb, p1 \div Limb, 0>>

\* the step that takes an --interval option and accepts it
AcceptsInterval ==
    /\ pc = "parse" /\ args # << >> /\ Head(args).opt = "i"
    /\ args' = Tail(args)
    /\ pc' = "parse"

\* C13: the interval starts as the default 10000 us; an accepted --interval MS
\* makes it MS * 1000 us; nothing else changes it except the override by a
\* watchdog the supervisor reports with debug mode off; and each iteration
\* sleeps the interval.  So with debug mode set or no watchdog reported the
\* loop sleeps MS * 1000 us, or 10000 us when no --interval was given.
C13_UserIntervalStands ==
    /\ interval_us = DEFAULT_INTERVAL
    /\ [][AcceptsInterval =>
            IntToU32(interval_us') = MsToUsec(atoi(Head(args).optarg))]_vars
    /\ [][interval_us' # interval_us =>
            \/ pc = "parse" /\ args # << >> /\ Head(args).opt = "i"
            \/ pc = "wd_query" /\ debug_mode = 0 /\ watchdog_enabled' > 0]_vars
    /\ [](pc = "sleep" => slept_us = IntToU32(interval_us))

\* the same with the first conjunct limited to products that fit an int
C13_FittingIntervalStands ==
    /\ interval_us = DEFAULT_INTERVAL
    /\ [][AcceptsInterval /\ MulFits(atoi(Head(args).optarg), 1000) =>
            IntToU32(interval_us') = MsToUsec(atoi(Head(args).optarg))]_vars
    /\ [][interval_us' # interval_us =>
            \/ pc = "parse" /\ args # << >> /\ Head(args).opt = "i"
            \/ pc = "wd_query" /\ debug_mode = 0 /\ watchdog_enabled' > 0]_vars
    /\ [](pc = "sleep" => slept_us = IntToU32(interval_us))

----------------------------------------------------------------------------
\* the first step of the probe in progress that failed, told from what the
\* probe holds: no buffer, no descriptor, a negative size, a failed reseek,
\* the result of the last read, or a failed close
FirstFailure ==
    IF read_buf = "none" THEN "alloc"
    ELSE IF fd = "none" THEN "open"
    ELSE IF file_size < 0 \/ reseek_failed THEN "seek"
    ELSE IF n_reads > 0 /\ ret < 0 THEN "read"
    ELSE IF n_reads > 0 /\ ret = 0 THEN "eof"
    ELSE IF n_reads > 0 /\ ret # BUFFER_SIZE THEN "short"
    ELSE IF ~all_ok THEN "close"
    ELSE "none"

\* the outcome the probe is to return for its first failing step
OutcomeOf(step) ==
    CASE step = "alloc" -> 1
      [] step = "open"  -> 2
      [] step = "seek"  -> 3
      [] step = "read"  -> 4
      [] step = "eof"   -> 5
      [] step = "short" -> 6
      [] step = "close" -> 7
      [] step = "none"  -> 0

\* C14: a probe returns the outcome of its first failing step (allocation 1,
\* open 2, seek 3, negative read 4, zero-byte read 5, short read 6, close 7)
\* and 0 when no step failed, and it issues no read once a step has failed.
C14_FirstFailureDecides ==
    /\ [](pc = "p_ret" => rc = OutcomeOf(FirstFailure))
    /\ [][n_reads' > n_reads => all_ok]_vars

\* the same for the probes whose reseek to the start succeeded
C14_FirstFailureDecidesButReseek ==
    /\ [](pc = "p_ret" /\ ~reseek_failed => rc = OutcomeOf(FirstFailure))
    /\ [][n_reads' > n_reads /\ ~reseek_failed => all_ok]_vars

\* C15: once either seek of a probe has failed (the seek to the end or the
\* reseek to the start) the probe is at its return with outcome 3, the
\* descriptor closed and the buffer released, and it has issued no read.
C15_EitherSeekFailureIsOutcome3 ==
    file_size < 0 \/ reseek_failed =>
        /\ pc = "p_ret"
        /\ rc = 3
        /\ fd = "closed"
        /\ read_buf = "freed"
        /\ n_reads = 0

\* the same for the seek to the end alone
C15_SizeSeekFailureIsOutcome3 ==
    file_size < 0 =>
        /\ pc = "p_ret"
        /\ rc = 3
        /\ fd = "closed"
        /\ read_buf = "freed"
        /\ n_reads = 0

----------------------------------------------------------------------------
ProbePcs == {"p_alloc", "p_open", "p_seek_end", "p_seek_set", "p_read",
             "p_close", "p_ret"}

\* C16: within a probe free(read_buf) and close(fd) are each called at most
\* once, and only on a buffer that was allocated and a descriptor that was
\* opened; when the probe returns, on whatever path, a buffer it allocated
\* has been freed once and a descriptor it opened has had close called once;
\* outside a probe the process holds no probe buffer and no descriptor.
C16_ProbeReleasesExactlyOnce ==
    /\ n_free = (IF read_buf = "freed" THEN 1 ELSE 0)
    /\ n_close = (IF fd = "closed" THEN 1 ELSE 0)
    /\ (fd # "none" => read_buf # "none")
    /\ (pc = "p_ret" => read_buf \in {"none", "freed"} /\ fd \in {"none", "closed"})
    /\ (pc = "p_ret" /\ rc # 1 => read_buf = "freed")
    /\ (pc = "p_ret" /\ rc \notin {1, 2} => fd = "closed")
    /\ (pc \notin ProbePcs =>
            read_buf = "none" /\ fd = "none" /\ n_free = 0 /\ n_close = 0)

\* a probe is at its return on the path of a failed close, after reads
C16_Witness ==
    /\ pc = "p_ret"
    /\ rc = 7
    /\ n_reads >= 1
    /\ n_free = 1
    /\ n_close = 1

----------------------------------------------------------------------------
----------------------------------------------------------------------------
\* C18: in a probe the byte counter is a multiple of 512 not above the aligned
\* size; a read that returns 512 adds exactly 512 to it and any other read
\* ends the loop with the counter untouched; so the read calls of a probe
\* never exceed floor(S / 512) for the size S measured by the seek, whatever
\* the reads return (the file may have grown or shrunk meanwhile); and, each
\* system call returning, every probe that has started returns.
C18_ProbeTerminates ==
    /\ [](pc \in ProbePcs =>
            /\ bytes_read % BUFFER_SIZE = 0
            /\ bytes_read <= aligned_size
            /\ bytes_read \div BUFFER_SIZE <= n_reads
            /\ n_reads <= bytes_read \div BUFFER_SIZE + 1)
    /\ [](pc \in ProbePcs /\ file_size >= 0 =>
            n_reads <= file_size \div BUFFER_SIZE)
    /\ [][n_reads' = n_reads + 1 =>
            IF ret' = BUFFER_SIZE
            THEN bytes_read' = bytes_read + BUFFER_SIZE /\ pc' = "p_read"
            ELSE bytes_read' = bytes_read /\ pc' = "p_ret"]_vars
    /\ (pc \in ProbePcs ~> pc = "after_probe")

\* a probe has read both whole blocks of a file of 2 * 512 + 511 bytes
C18_Witness ==
    /\ pc = "p_close"
    /\ file_size = 2 * BUFFER_SIZE + (BUFFER_SIZE - 1)
    /\ n_reads = 2
    /\ bytes_read = 2 * BUFFER_SIZE

----------------------------------------------------------------------------
\* C19: in every state in which the monitor loop runs the interval is
\* strictly positive, whatever --interval was accepted and whatever timeout
\* the supervisor reported.
C19_IntervalPositiveInLoop == pc \in LoopPcs => interval_us > 0

----------------------------------------------------------------------------
\* the values of sig_pc for a signal that fell within the loop
LoopPhases == {"loop_check", "probe", "after_probe", "sleep"}

\* C20: once a handled signal has cleared running, at most one more probe is
\* begun and at most one more heartbeat is sent than at the moment of the
\* signal, however the signal falls within the iteration; and when the
\* signal fell within the loop the process then exits, with code 0.
C20_OneProbeOneHeartbeatAfterSignal ==
    /\ [](running = 0 =>
            /\ sig_pc # "none"
            /\ Begun <= sig_snap.probes + 1
            /\ n_hb <= sig_snap.hb + 1)
    /\ [](sig_pc \in LoopPhases /\ pc = "exited" => exit_code = 0)
    /\ (sig_pc \in LoopPhases ~> (pc = "exited" /\ exit_code = 0))

\* the signal fell between the loop check and the call of test_read: the
\* probe and the heartbeat of that iteration came after it, then the exit
C20_Witness ==
    /\ sig_pc = "probe"
    /\ pc = "exited"
    /\ exit_code = 0
    /\ Begun = sig_snap.probes + 1
    /\ n_hb = sig_snap.hb + 1
    /\ sig_snap.probes >= 1

============================================================================
